---- MODULE Spec2Model ----
(***************************************************************************)
(* py3status module "mellowplayer" (src/py3status/modules/mellowplayer.py) *)
(*                                                                         *)
(* Text is modelled as a sequence of one-character strings, so that        *)
(* slicing, trimming and pattern matching are computed character by        *)
(* character.  A Python value that may be None is modelled as a sequence   *)
(* of length 0 (None) or 1 (the value).  A dict is a function whose        *)
(* domain is the set of keys present.                                      *)
(***************************************************************************)
EXTENDS Integers, Sequences, FiniteSets, TLC

VARIABLES
    config,           \* the configuration parameters of the Py3status object
    py3,              \* the colours the host theme provides (self.py3.COLOR_*)
    setup,            \* "pending" | "ready" | "error": post_config_hook's outcome
    after_delimiter,  \* self.after_delimiter: None or the compiled pattern
    inside_brackets,  \* self.inside_brackets: None or the compiled pattern
    bus_object,       \* self.__bus: None or the proxy of the player object
    player,           \* self.player: None or the properties interface
    world,            \* what the bus answered (would answer) during the last poll
    outcome,          \* "none" | "rendered" | "stopped" | "down" | "raised"
    response,         \* what the last mellowplayer() call returned
    calls,            \* the remote/host operations the last poll attempted, in order
    fields,           \* the placeholder dict the last poll handed to safe_format
    san_text,         \* a title under repeated _sanitize_title
    san_n             \* how many times _sanitize_title was applied to san_text

vars == <<config, py3, setup, after_delimiter, inside_brackets, bus_object,
          player, world, outcome, response, calls, fields, san_text, san_n>>

-----------------------------------------------------------------------------
(* Python values *)

None == <<>>
Some(v) == <<v>>
IsNone(o) == Len(o) = 0
Val(o) == o[1]

\* the operands of "or" the wrong way round: the generic colour wins
PyOr_generic_first(a, b) == IF b = "None" THEN a ELSE b

\* Python's "a or b" on colours: None (an unset colour) is falsy.
PyOr(a, b) == IF a = "None" THEN b ELSE a

Min(S) == CHOOSE x \in S : \A y \in S : x <= y
Max(S) == CHOOSE x \in S : \A y \in S : x >= y

-----------------------------------------------------------------------------
(* Characters *)

NL == "\n"
Whitespace == {" ", NL, "\t"}
Delimiters == {"-", ",", ";", "/"}
Openers == {"(", "["}
Closers == {")", "]"}

\* re.IGNORECASE: characters are compared after case folding.
LowerCase ==
    ("A" :> "a") @@ ("B" :> "b") @@ ("C" :> "c") @@ ("D" :> "d") @@ ("E"
    :> "e") @@ ("F" :> "f") @@ ("G" :> "g") @@ ("H" :> "h") @@ ("I" :>
    "i") @@ ("J" :> "j") @@ ("K" :> "k") @@ ("L" :> "l") @@ ("M" :> "m")
    @@ ("N" :> "n") @@ ("O" :> "o") @@ ("P" :> "p") @@ ("Q" :> "q") @@
    ("R" :> "r") @@ ("S" :> "s") @@ ("T" :> "t") @@ ("U" :> "u") @@ ("V"
    :> "v") @@ ("W" :> "w") @@ ("X" :> "x") @@ ("Y" :> "y") @@ ("Z" :>
    "z")

Lower(c) == IF c \in DOMAIN LowerCase THEN LowerCase[c] ELSE c

-----------------------------------------------------------------------------
(* Pattern compilation: post_config_hook and _compile_re *)

\* '|'.join(words)
RECURSIVE Join(_)
Join(words) ==
    IF Len(words) = 0 THEN <<>>
    ELSE IF Len(words) = 1 THEN words[1]
    ELSE words[1] \o <<"|">> \o Join(Tail(words))

\* The alternatives of the group (META_WORDS_HERE): the text between the "|".
RECURSIVE Alternatives(_)
Alternatives(meta) ==
    LET bars == {k \in 1..Len(meta) : meta[k] = "|"}
    IN  IF bars = {} THEN <<meta>>
        ELSE <<SubSeq(meta, 1, Min(bars) - 1)>>
             \o Alternatives(SubSeq(meta, Min(bars) + 1, Len(meta)))

\* re.compile raises re.error when the substituted text leaves the
\* expression's parentheses unbalanced.
RECURSIVE ParenDepth(_, _)
ParenDepth(meta, depth) ==
    IF depth < 0 THEN depth
    ELSE IF meta = <<>> THEN depth
    ELSE ParenDepth(Tail(meta),
                    CASE Head(meta) = "(" -> depth + 1
                      [] Head(meta) = ")" -> depth - 1
                      [] OTHER -> depth)

ReError == [ok |-> FALSE, kind |-> "re.error", alts |-> <<>>]

compile_re(sanitize_words, kind) ==
    LET meta_words == Join(sanitize_words)
    IN  IF ParenDepth(meta_words, 0) # 0 THEN ReError
        ELSE [ok |-> TRUE, kind |-> kind, alts |-> Alternatives(meta_words)]

-----------------------------------------------------------------------------
(* Pattern matching: re.sub with the two compiled patterns *)

\* the alternative matches the text at position j, ignoring case
WordAt(s, j, w) ==
    /\ j + Len(w) - 1 <= Len(s)
    /\ \A k \in 1..Len(w) : Lower(s[j + k - 1]) = Lower(w[k])

\* the first alternative, in the order of the expression, that matches at j
FirstAlt(alts, s, j) ==
    LET hits == {n \in 1..Len(alts) : WordAt(s, j, alts[n])}
    IN  IF hits = {} THEN 0 ELSE Min(hits)

\* ".*" from position e: up to, not including, the next line break
LineEnd(s, e) ==
    Min({k \in e..Len(s) : s[k] = NL} \cup {Len(s) + 1}) - 1

\* ([\-,;/])([^\-,;/])*(words).*  matched at position i: the index of the
\* last character of the match, or 0 when there is none.  The star is
\* greedy: the word is taken at the last position that the run of
\* non-delimiters reaches.
AfterDelimiterEnd(alts, s, i) ==
    IF s[i] \notin Delimiters THEN 0
    ELSE LET J == {j \in (i + 1)..(Len(s) + 1) :
                     /\ \A k \in (i + 1)..(j - 1) : s[k] \notin Delimiters
                     /\ FirstAlt(alts, s, j) # 0}
         IN  IF J = {} THEN 0
             ELSE LET j == Max(J)
                      w == alts[FirstAlt(alts, s, j)]
                  IN  LineEnd(s, j + Len(w))

\* ([\(\[][^)\]]*?(words)[^)\]]*?[\)\]])  matched at position i: the index
\* of the last character of the match, or 0.  Both stars are lazy: the word
\* is taken at the first position from which the rest still matches.
BracketClose(s, e) ==
    LET K == {k \in e..Len(s) :
                /\ s[k] \in Closers
                /\ \A m \in e..(k - 1) : s[m] \notin Closers}
    IN  IF K = {} THEN 0 ELSE Min(K)

InsideBracketsEnd(alts, s, i) ==
    IF s[i] \notin Openers THEN 0
    ELSE LET C == {c \in ((i + 1)..(Len(s) + 1)) \X (1..Len(alts)) :
                     /\ \A k \in (i + 1)..(c[1] - 1) : s[k] \notin Closers
                     /\ WordAt(s, c[1], alts[c[2]])
                     /\ BracketClose(s, c[1] + Len(alts[c[2]])) # 0}
         IN  IF C = {} THEN 0
             ELSE LET j == Min({c[1] : c \in C})
                      n == Min({c[2] : c \in {d \in C : d[1] = j}})
                  IN  BracketClose(s, j + Len(alts[n]))

MatchEnd(pattern, s, i) ==
    IF pattern.kind = "after_delimiter"
    THEN AfterDelimiterEnd(pattern.alts, s, i)
    ELSE InsideBracketsEnd(pattern.alts, s, i)

\* re.sub(pattern, "", s): every non-overlapping match, leftmost first, is
\* removed; the scan resumes after the match.
RECURSIVE ReSubFrom(_, _, _)
ReSubFrom(pattern, s, pos) ==
    LET starts == {i \in pos..Len(s) : MatchEnd(pattern, s, i) # 0}
    IN  IF starts = {} THEN SubSeq(s, pos, Len(s))
        ELSE LET i == Min(starts)
             IN  SubSeq(s, pos, i - 1)
                 \o ReSubFrom(pattern, s, MatchEnd(pattern, s, i) + 1)

re_sub(pattern, s) == ReSubFrom(pattern, s, 1)

\* str.strip()
strip(s) ==
    LET keep == {k \in 1..Len(s) : s[k] \notin Whitespace}
    IN  IF keep = {} THEN <<>> ELSE SubSeq(s, Min(keep), Max(keep))

\* _sanitize_title
sanitize_title(brackets, delimiter, title) ==
    strip(re_sub(delimiter, re_sub(brackets, title)))

-----------------------------------------------------------------------------
(* Duration: str(timedelta(microseconds=microtime))[:-7] *)

Digit(d) == <<"0", "1", "2", "3", "4", "5", "6", "7", "8", "9">>[d + 1]

\* "%d" of a non-negative integer
RECURSIVE Decimal(_)
Decimal(n) == IF n < 10 THEN <<Digit(n)>> ELSE Decimal(n \div 10) \o <<Digit(n % 10)>>

\* "%0<width>d" of a non-negative integer
RECURSIVE ZeroPad(_, _)
ZeroPad(s, width) == IF Len(s) >= width THEN s ELSE ZeroPad(<<"0">> \o s, width)

MicrosPerSecond == 1000000
SecondsPerDay == 86400

\* timedelta.__str__: [D day[s], ]H:MM:SS[.UUUUUU]; the fraction is printed
\* only when the microseconds are not zero.
timedelta_str(microtime) ==
    LET total   == microtime \div MicrosPerSecond
        micros  == microtime % MicrosPerSecond
        days    == total \div SecondsPerDay
        seconds == total % SecondsPerDay
        hh      == seconds \div 3600
        mm      == (seconds % 3600) \div 60
        ss      == seconds % 60
        clock   == Decimal(hh) \o <<":">> \o ZeroPad(Decimal(mm), 2)
                   \o <<":">> \o ZeroPad(Decimal(ss), 2)
        dayspart == IF days = 0 THEN <<>>
                    ELSE Decimal(days) \o <<" ", "d", "a", "y">>
                         \o (IF days = 1 THEN <<>> ELSE <<"s">>) \o <<",", " ">>
        fraction == IF micros = 0 THEN <<>>
                    ELSE <<".">> \o ZeroPad(Decimal(micros), 6)
    IN  dayspart \o clock \o fraction

\* s[:-n]
DropLast(s, n) == SubSeq(s, 1, Len(s) - n)

rtime_of(microtime) == DropLast(timedelta_str(microtime), 7)

-----------------------------------------------------------------------------
(* The host's helpers *)

\* the placeholders of a template and the key each one reads
Placeholders == {"{album}", "{artist}", "{time}", "{title}"}
KeyOf(placeholder) ==
    CASE placeholder = "{album}" -> "album"
      [] placeholder = "{artist}" -> "artist"
      [] placeholder = "{time}" -> "time"
      [] placeholder = "{title}" -> "title"

\* py3.safe_format: a template is a sequence whose elements are literal
\* characters or placeholders; a placeholder whose value is None renders as
\* nothing.
RECURSIVE safe_format(_, _)
safe_format(format, params) ==
    IF format = <<>> THEN <<>>
    ELSE (IF Head(format) \in Placeholders
          THEN (IF IsNone(params[KeyOf(Head(format))]) THEN <<>>
                ELSE Val(params[KeyOf(Head(format))]))
          ELSE <<Head(format)>>)
         \o safe_format(Tail(format), params)

\* py3.time_in(seconds): the deadline, relative to the instant of the poll
time_in(seconds) == seconds

-----------------------------------------------------------------------------
(* _get_text and mellowplayer *)

\* dict.get(key): None when the key is absent
DictGet(d, key) == IF key \in DOMAIN d THEN Some(d[key]) ELSE None

Proxy == Some("org.mpris.MediaPlayer2.MellowPlayer")
Properties == Some("org.freedesktop.DBus.Properties")

NoFields == [title |-> None, artist |-> None, album |-> None, time |-> None]

Result(raised, kind, text, color, ops, params, bo, pl) ==
    [raised |-> raised, outcome |-> kind, text |-> text, color |-> color,
     calls |-> ops, fields |-> params, bus_object |-> bo, player |-> pl]

\* the outer handler returning the inner handler's text
Down_as_stopped(self, ops, bo, pl) ==
    Result(FALSE, "down", self.config.format_stopped,
           PyOr(self.py3.COLOR_OFFLINE, self.py3.COLOR_BAD), ops, NoFields, bo, pl)

\* lines 139-141: the outer handler
Down(self, ops, bo, pl) ==
    Result(FALSE, "down", self.config.format_down,
           PyOr(self.py3.COLOR_OFFLINE, self.py3.COLOR_BAD), ops, NoFields, bo, pl)

\* lines 129-131: the inner handler
Stopped(self, ops, bo, pl) ==
    Result(FALSE, "stopped", self.config.format_stopped,
           PyOr(self.py3.COLOR_PAUSED, self.py3.COLOR_DEGRADED), ops, NoFields, bo, pl)

\* the proxy kept from an earlier poll is used again without a lookup
connect_cached(self, w) ==
    IF ~w.session
    THEN [step |-> "raise", calls |-> <<"SessionBus">>,
          bus_object |-> self.bus_object, player |-> self.player]
    ELSE IF ~IsNone(self.player)
    THEN [step |-> "ok", calls |-> <<"SessionBus">>,
          bus_object |-> self.bus_object, player |-> self.player]
    ELSE IF ~w.object
    THEN [step |-> "down", calls |-> <<"SessionBus", "get_object">>,
          bus_object |-> self.bus_object, player |-> self.player]
    ELSE IF ~w.interface
    THEN [step |-> "down", calls |-> <<"SessionBus", "get_object", "Interface">>,
          bus_object |-> Proxy, player |-> self.player]
    ELSE [step |-> "ok", calls |-> <<"SessionBus", "get_object", "Interface">>,
          bus_object |-> Proxy, player |-> Properties]

\* lines 104-109: the session bus, the player object and its properties
\* interface.  step: "raise" (SessionBus failed, outside every try),
\* "down" (caught by the outer handler) or "ok".
connect(self, w) ==
    IF ~w.session
    THEN [step |-> "raise", calls |-> <<"SessionBus">>,
          bus_object |-> self.bus_object, player |-> self.player]
    ELSE IF ~w.object
    THEN [step |-> "down", calls |-> <<"SessionBus", "get_object">>,
          bus_object |-> self.bus_object, player |-> self.player]
    ELSE IF ~w.interface
    THEN [step |-> "down", calls |-> <<"SessionBus", "get_object", "Interface">>,
          bus_object |-> Proxy, player |-> self.player]
    ELSE [step |-> "ok", calls |-> <<"SessionBus", "get_object", "Interface">>,
          bus_object |-> Proxy, player |-> Properties]

\* lines 114-121: the fields of the metadata dict; None when a statement
\* raises (None[0], [][0], timedelta(microseconds=None), re.sub on None).
track_fields(self, metadata) ==
    LET album     == DictGet(metadata, "xesam:album")
        artists   == DictGet(metadata, "xesam:artist")
        microtime == DictGet(metadata, "mpris:length")
        title     == DictGet(metadata, "xesam:title")
    IN  IF IsNone(artists) \/ Len(Val(artists)) = 0 THEN None
        ELSE IF IsNone(microtime) THEN None
        ELSE IF self.config.sanitize_titles /\ (IsNone(album) \/ IsNone(title)) THEN None
        ELSE Some([title  |-> IF self.config.sanitize_titles
                              THEN Some(sanitize_title(Val(self.inside_brackets),
                                                       Val(self.after_delimiter),
                                                       Val(title)))
                              ELSE title,
                   artist |-> Some(Val(artists)[1]),
                   album  |-> IF self.config.sanitize_titles
                              THEN Some(sanitize_title(Val(self.inside_brackets),
                                                       Val(self.after_delimiter),
                                                       Val(album)))
                              ELSE album,
                   time   |-> Some(rtime_of(Val(microtime)))])

Playing == <<"P", "l", "a", "y", "i", "n", "g">>

\* the status compared without trimming it
status_color_untrimmed(self, playback_status) ==
    IF playback_status = Playing
    THEN PyOr(self.py3.COLOR_PLAYING, self.py3.COLOR_GOOD)
    ELSE PyOr(self.py3.COLOR_PAUSED, self.py3.COLOR_DEGRADED)

\* lines 125-128
status_color(self, playback_status) ==
    IF strip(playback_status) = Playing
    THEN PyOr(self.py3.COLOR_PLAYING, self.py3.COLOR_GOOD)
    ELSE PyOr(self.py3.COLOR_PAUSED, self.py3.COLOR_DEGRADED)

\* lines 111-138, once the properties interface exists
read_and_render(self, w, c) ==
    IF IsNone(w.metadata)
    THEN Stopped(self, c.calls \o <<"Get Metadata">>, c.bus_object, c.player)
    ELSE LET track == track_fields(self, Val(w.metadata))
             read1 == c.calls \o <<"Get Metadata">>
             read2 == read1 \o <<"Get PlaybackStatus">>
         IN  IF IsNone(track)
             THEN Stopped(self, read1, c.bus_object, c.player)
             ELSE IF IsNone(w.status)
             THEN Stopped(self, read2, c.bus_object, c.player)
             ELSE IF w.format_raises
             THEN Down(self, read2 \o <<"safe_format">>, c.bus_object, c.player)
             ELSE Result(FALSE, "rendered",
                         safe_format(self.config.format, Val(track)),
                         status_color(self, Val(w.status)),
                         read2 \o <<"safe_format">>, Val(track),
                         c.bus_object, c.player)

get_text(self, w) ==
    LET c == connect(self, w)
    IN  IF c.step = "raise"
        THEN Result(TRUE, "raised", <<>>, "None", c.calls, NoFields,
                    c.bus_object, c.player)
        ELSE IF c.step = "down"
        THEN Down(self, c.calls, c.bus_object, c.player)
        ELSE read_and_render(self, w, c)

\* lines 151-161
mellowplayer_response(self, r) ==
    [cached_until |-> time_in(self.config.cache_timeout),
     color |-> r.color,
     full_text |-> r.text]

NoResponse == [cached_until |-> 0, color |-> "None", full_text |-> <<>>]

-----------------------------------------------------------------------------
(* Inputs: configurations, themes, and what the bus answers *)

FormatDefault == <<"{artist}", " ", ":", " ", "{title}">>
FormatAlbumTime == <<"{album}", " ", "{time}">>
FormatDown == <<"d", "o", "w", "n">>
FormatStopped == <<"s", "t", "o", "p", "p", "e", "d">>

WordEdit == <<"e", "d", "i", "t">>
WordDemo == <<"d", "e", "m", "o">>
WordBroken == <<"(">>

Config(format, sanitize_titles, sanitize_words) ==
    [cache_timeout |-> 5, format |-> format, format_down |-> FormatDown,
     format_stopped |-> FormatStopped, sanitize_titles |-> sanitize_titles,
     sanitize_words |-> sanitize_words]

\* both templates with sanitizing on and off, and the three kinds of word
\* list: usable, empty, and one that breaks the expression
Configs ==
    {Config(f, st, <<WordEdit, WordDemo>>) :
        f \in {FormatDefault, FormatAlbumTime}, st \in BOOLEAN}
    \cup {Config(FormatDefault, TRUE, <<>>),
          Config(FormatDefault, TRUE, <<WordBroken>>)}

Themes ==
    [COLOR_PLAYING : {"None", "#playing"},
     COLOR_PAUSED : {"None", "#paused"},
     COLOR_OFFLINE : {"None", "#offline"},
     COLOR_GOOD : {"#00FF00"},
     COLOR_DEGRADED : {"#FFFF00"},
     COLOR_BAD : {"#FF0000"}]

Album == <<"L", "P", "[", "D", "e", "m", "o", "]">>
Artist == <<"R", "i", "c", "k">>
OtherArtist == <<"A", "l">>
TitleEdit == <<"U", "p", " ", "-", "E", "d", "i", "t">>
TitlePlain == <<"U", "p">>

Track ==
    ("xesam:album" :> Album) @@ ("xesam:artist" :> <<Artist, OtherArtist>>)
    @@ ("mpris:length" :> 125000000) @@ ("xesam:title" :> TitleEdit)

Without(d, key) == [k \in DOMAIN d \ {key} |-> d[k]]
With(d, key, v) == [k \in DOMAIN d |-> IF k = key THEN v ELSE d[k]]

\* the Metadata property: a full track, a track with one key absent or
\* changed, and the empty dict of a player with no track loaded
Metadatas ==
    {Track}
    \cup {Without(Track, key) : key \in DOMAIN Track}
    \cup {With(Track, "mpris:length", n) : n \in {0, 125000001, 2100000000}}
    \cup {With(Track, "xesam:artist", <<>>), With(Track, "xesam:title", TitlePlain)}
    \cup {Without(Without(Without(Without(Track, "xesam:album"), "xesam:artist"),
                          "mpris:length"), "xesam:title")}

Statuses ==
    {Playing,
     <<" ">> \o Playing \o <<NL>>,
     <<"p", "l", "a", "y", "i", "n", "g">>,
     <<"P", "a", "u", "s", "e", "d">>,
     <<"S", "t", "o", "p", "p", "e", "d">>,
     <<>>}

World(session, object, interface, metadata, status, format_raises) ==
    [session |-> session, object |-> object, interface |-> interface,
     metadata |-> metadata, status |-> status, format_raises |-> format_raises]

\* A world is consistent: nothing answers behind a bus that is down, and no
\* property is readable on a player that is not there.  The full track is
\* met with every status and with a formatter that raises; every other
\* metadata dict with a playing and a paused player.
Worlds ==
    {World(FALSE, FALSE, FALSE, None, None, FALSE),
     World(TRUE, FALSE, FALSE, None, None, FALSE),
     World(TRUE, TRUE, FALSE, None, None, FALSE),
     World(TRUE, TRUE, TRUE, None, None, FALSE)}
    \cup {World(TRUE, TRUE, TRUE, Some(Track), s, f) :
            s \in {None} \cup {Some(x) : x \in Statuses}, f \in BOOLEAN}
    \cup {World(TRUE, TRUE, TRUE, Some(m), Some(s), FALSE) :
            m \in Metadatas, s \in {Playing, <<"P", "a", "u", "s", "e", "d">>}}

NoWorld == World(FALSE, FALSE, FALSE, None, None, FALSE)

-----------------------------------------------------------------------------
(* The state machine *)

Self == [config |-> config, py3 |-> py3, after_delimiter |-> after_delimiter,
         inside_brackets |-> inside_brackets, bus_object |-> bus_object,
         player |-> player]

Init ==
    /\ config \in Configs
    /\ py3 \in Themes
    /\ setup = "pending"
    /\ after_delimiter = None
    /\ inside_brackets = None
    /\ bus_object = None
    /\ player = None
    /\ world = NoWorld
    /\ outcome = "none"
    /\ response = NoResponse
    /\ calls = <<>>
    /\ fields = NoFields
    /\ san_text = <<>>
    /\ san_n = 0

\* lines 73-90: the two patterns are compiled in turn; re.error propagates
\* and leaves the attribute not yet assigned unset.
post_config_hook ==
    /\ setup = "pending"
    /\ LET ad == compile_re(config.sanitize_words, "after_delimiter")
           ib == compile_re(config.sanitize_words, "inside_brackets")
       IN  /\ after_delimiter' = IF ad.ok THEN Some(ad) ELSE None
           /\ inside_brackets' = IF ad.ok /\ ib.ok THEN Some(ib) ELSE None
           /\ setup' = IF ad.ok /\ ib.ok THEN "ready" ELSE "error"
    /\ UNCHANGED <<config, py3, bus_object, player, world, outcome, response,
                   calls, fields, san_text, san_n>>

\* lines 151-161: one poll by the host, against whatever the bus answers
mellowplayer ==
    /\ setup = "ready"
    /\ \E w \in Worlds :
         \E r \in {get_text(Self, w)} :
             /\ world' = w
             /\ outcome' = r.outcome
             /\ response' = IF r.raised THEN NoResponse
                            ELSE mellowplayer_response(Self, r)
             /\ calls' = r.calls
             /\ fields' = r.fields
             /\ bus_object' = r.bus_object
             /\ player' = r.player
    /\ UNCHANGED <<config, py3, setup, after_delimiter, inside_brackets,
                   san_text, san_n>>

Next == post_config_hook \/ mellowplayer

Spec == Init /\ [][Next]_vars

-----------------------------------------------------------------------------
(* _sanitize_title as a function of its own: every short text over a small *)
(* alphabet is sanitized repeatedly with the patterns of a usable word list *)

MaxLen == 6
MaxApply == 2

WordW == <<"w">>
SanAlphabet == {"-", "w", NL, "(", ")", " "}
SanTexts == UNION {[1..n -> SanAlphabet] : n \in 0..MaxLen}
SanWordLists == {<<WordW>>}

DefaultTheme ==
    [COLOR_PLAYING |-> "None", COLOR_PAUSED |-> "None", COLOR_OFFLINE |-> "None",
     COLOR_GOOD |-> "#00FF00", COLOR_DEGRADED |-> "#FFFF00", COLOR_BAD |-> "#FF0000"]

InitSanitize ==
    /\ config \in {Config(FormatDefault, TRUE, ws) : ws \in SanWordLists}
    /\ py3 = DefaultTheme
    /\ setup = "pending"
    /\ after_delimiter = None
    /\ inside_brackets = None
    /\ bus_object = None
    /\ player = None
    /\ world = NoWorld
    /\ outcome = "none"
    /\ response = NoResponse
    /\ calls = <<>>
    /\ fields = NoFields
    /\ san_text \in SanTexts
    /\ san_n = 0

\* lines 143-149, applied to the text it returned last
sanitize ==
    /\ setup = "ready"
    /\ san_n < MaxApply
    /\ san_text' = sanitize_title(Val(inside_brackets), Val(after_delimiter), san_text)
    /\ san_n' = san_n + 1
    /\ UNCHANGED <<config, py3, setup, after_delimiter, inside_brackets,
                   bus_object, player, world, outcome, response, calls, fields>>

NextSanitize == post_config_hook \/ sanitize

SpecSanitize == InitSanitize /\ [][NextSanitize]_vars

-----------------------------------------------------------------------------
(* Properties *)

Polled == outcome # "none"
Range(s) == {s[k] : k \in 1..Len(s)}
PropertyReads == {"Get Metadata", "Get PlaybackStatus"}

\* the colour of each outcome, written out: the semantic colour when the
\* theme sets it, else the generic one
PlayingColour == IF py3.COLOR_PLAYING # "None" THEN py3.COLOR_PLAYING ELSE py3.COLOR_GOOD
PausedColour == IF py3.COLOR_PAUSED # "None" THEN py3.COLOR_PAUSED ELSE py3.COLOR_DEGRADED
OfflineColour == IF py3.COLOR_OFFLINE # "None" THEN py3.COLOR_OFFLINE ELSE py3.COLOR_BAD

\* the bus was reached, the player object found and its interface built
Reached(w) == w.session /\ w.object /\ w.interface

\* a metadata dict with every key present and at least one artist
Complete(m) ==
    /\ DOMAIN m = {"xesam:album", "xesam:artist", "mpris:length", "xesam:title"}
    /\ Len(m["xesam:artist"]) > 0

\* C1: a poll never propagates an error: whatever fails, mellowplayer()
\* returns the rendered template, the stopped state or the down state.
C1_NeverPropagates ==
    Polled => outcome \in {"rendered", "stopped", "down"}

\* C2: when the lookup of the player object fails, the poll returns exactly
\* (format_down, offline colour), whatever the rest of the configuration is,
\* and attempts no property read.
C2_LookupFailureIsDown ==
    (Polled /\ world.session /\ ~world.object) =>
        /\ outcome = "down"
        /\ response.full_text = config.format_down
        /\ response.color = OfflineColour
        /\ Range(calls) \cap PropertyReads = {}

C2_Witness ==
    /\ outcome = "down" /\ world.session /\ ~world.object
    /\ ~config.sanitize_titles /\ config.format = FormatAlbumTime
    /\ py3.COLOR_OFFLINE = "#offline"

\* C3: once the player object is found, every later error of the poll
\* (Metadata read, field extraction, duration, sanitizing, PlaybackStatus
\* read, template formatting) yields (format_stopped, paused colour), never
\* the down state.
C3_LaterErrorsAreStopped ==
    (Polled /\ Reached(world) /\ outcome # "rendered") =>
        /\ outcome = "stopped"
        /\ response.full_text = config.format_stopped
        /\ response.color = PausedColour

\* H:MM:SS of a whole number of seconds
ClockText(seconds) ==
    Decimal(seconds \div 3600) \o <<":">>
    \o ZeroPad(Decimal((seconds % 3600) \div 60), 2) \o <<":">>
    \o ZeroPad(Decimal(seconds % 60), 2)

\* C4: the {time} value of a rendered poll is the H:MM:SS text of the
\* length truncated to whole seconds (125,000,000 microseconds: "0:02:05").
C4_TimeIsTruncatedClock ==
    outcome = "rendered" =>
        fields.time = Some(ClockText(Val(world.metadata)["mpris:length"] \div 1000000))

\* C5: _sanitize_title is idempotent: sanitizing a sanitized text returns it
\* unchanged.
C5_SanitizeIdempotent ==
    [][(san_n >= 1 /\ san_n' = san_n + 1) => san_text' = san_text]_vars

\* C6: with the player reachable and Metadata readable, a missing album or
\* title does not degrade the poll: the template is still rendered, for both
\* settings of sanitize_titles.
C6_MissingTextFieldStillRenders ==
    (/\ Polled /\ Reached(world) /\ ~IsNone(world.metadata)
     /\ ~IsNone(world.status) /\ ~world.format_raises
     /\ ~Complete(Val(world.metadata))
     /\ {"xesam:artist", "mpris:length"} \subseteq DOMAIN Val(world.metadata))
    => outcome = "rendered"

\* C7: post_config_hook fails with a configuration error when sanitize_words
\* is empty; it never leaves usable patterns built from an empty list.
C7_EmptyWordListFails ==
    (config.sanitize_words = <<>> /\ setup # "pending") =>
        /\ setup = "error"
        /\ IsNone(after_delimiter) /\ IsNone(inside_brackets)

\* the text is "Playing" with nothing but whitespace around it
IsPlayingText(s) ==
    \E a \in 1..(Len(s) + 1) :
        /\ a + Len(Playing) - 1 <= Len(s)
        /\ SubSeq(s, a, a + Len(Playing) - 1) = Playing
        /\ \A k \in 1..Len(s) :
             (k < a \/ k >= a + Len(Playing)) => s[k] \in Whitespace

\* C8: when the player is reachable and every metadata field is read, the
\* poll renders the template, and its colour is the playing colour if and
\* only if the status, trimmed, is exactly "Playing"; else the paused colour.
C8_ColourFollowsStatus ==
    (/\ Polled /\ Reached(world) /\ ~IsNone(world.metadata)
     /\ Complete(Val(world.metadata))
     /\ ~IsNone(world.status) /\ ~world.format_raises)
    => /\ outcome = "rendered"
       /\ response.full_text = safe_format(config.format, fields)
       /\ fields.artist = Some(Val(world.metadata)["xesam:artist"][1])
       /\ response.color = IF IsPlayingText(Val(world.status))
                           THEN PlayingColour ELSE PausedColour
       /\ PlayingColour # PausedColour

C8_Witness ==
    /\ outcome = "rendered"
    /\ world.status = Some(<<" ">> \o Playing \o <<NL>>)
    /\ response.color = "#playing"
    /\ response.full_text = Artist \o <<" ", ":", " ">> \o <<"U", "p">>

NoDuplicates(s) == \A i, j \in 1..Len(s) : s[i] = s[j] => i = j

\* C10: a poll's result depends only on what the bus answers during that
\* poll and on the static configuration: a poll that cannot find the player
\* shows the down state and one that reads a full track shows that track,
\* whatever the previous poll left behind; no operation is attempted twice;
\* the configuration and the compiled patterns are left as they were.
C10_PollsAreIndependent ==
    [][setup = "ready" =>
         /\ config' = config /\ py3' = py3 /\ setup' = setup
         /\ after_delimiter' = after_delimiter
         /\ inside_brackets' = inside_brackets
         /\ NoDuplicates(calls')
         /\ (world'.session /\ ~world'.object) =>
                /\ outcome' = "down"
                /\ response'.full_text = config.format_down
                /\ fields' = NoFields
         /\ (/\ Reached(world') /\ ~IsNone(world'.metadata)
             /\ Complete(Val(world'.metadata))
             /\ ~IsNone(world'.status) /\ ~world'.format_raises) =>
                /\ outcome' = "rendered"
                /\ fields'.artist = Some(Val(world'.metadata)["xesam:artist"][1])
                /\ fields'.time = Some(rtime_of(Val(world'.metadata)["mpris:length"]))
       ]_vars

\* a poll that found no player, right after polls that had found it
C10_Witness ==
    /\ outcome = "down" /\ world.session /\ ~world.object
    /\ player = Properties /\ bus_object = Proxy

====
